---- MODULE Spec2Model ----
(***************************************************************************)
(* Model of fastmot/mot.py: class MOT, the multi-stream orchestrator that  *)
(* drives one detector and one feature extractor over number_of_trackers   *)
(* per-stream trackers.  Each public method (reset, step, visible_tracks)  *)
(* is one action that models the whole call; the collaborator operations   *)
(* a call performs are recorded, in program order, in `log`.               *)
(***************************************************************************)
EXTENDS Integers, Sequences, FiniteSets, TLC

(* ------------------------------ bounds -------------------------------- *)
MaxTrackers == 2      \* number_of_trackers ranges over 1..MaxTrackers
MaxSkip == 2          \* detector_frame_skip ranges over 1..MaxSkip
MaxFrames == 3        \* non-null frames the streams take over a run

(* ------------------------------ values -------------------------------- *)
None == "None"
Frame == "frame"
FrameValues == {None, Frame}

NoError == "none"
IndexError == "IndexError"
AssertionError == "AssertionError"
DetectorError == "DetectorError"
ExtractorError == "ExtractorError"
StageErrors == {DetectorError, ExtractorError}

\* DetectionSet values the detector can return: ordered boxes, possibly none.
DetectionSets == {<< >>, <<2, 1>>}

\* What the shared detector / extractor do on one frame: the boxes found and
\* which call (if any) raises.
Outcomes == [dets : DetectionSets, fail : {NoError}]
              \cup [dets : {<< >>}, fail : {DetectorError}]
              \cup [dets : {<<2, 1>>}, fail : {ExtractorError}]
DefaultOutcome == [dets |-> << >>, fail |-> NoError]

\* constructed tells whether a MOT object exists; number_of_trackers ..
\* visualizers are its fields (empty before construction).  call, log, exc
\* and ret record the call in progress at the caller: its name and
\* arguments, the operations it performed, the exception it raised and the
\* value it returned.  given[i] counts the non-null frames stream i was
\* given by step calls with one frame per stream since the last reset call
\* with one config per stream; handed counts the non-null frames the
\* streams have taken in all step calls.
VARIABLES constructed, number_of_trackers, detector_frame_skip, draw,
          trackers, frame_counts, visualizers,
          call, log, exc, ret, given, handed

vars == <<constructed, number_of_trackers, detector_frame_skip, draw,
          trackers, frame_counts, visualizers, call, log, exc, ret, given, handed>>

(* --------------------------- collaborators ---------------------------- *)
\* FeatureExtractor: one embedding per box, in box order.
Embedding(box) == 10 + box
Embeddings(boxes) == [k \in 1..Len(boxes) |-> Embedding(boxes[k])]

\* MultiTracker state: the track table (in insertion order) and the last
\* operation that changed the tracker.  cap_dt only seeds the motion model;
\* the value handed over is kept in the log entry of the reset.
NewTracker == [tracks |-> << >>, stage |-> "new"]

TrackerReset(t, cap_dt) == NewTracker

NewTrack(box) == [id |-> box, confirmed |-> FALSE, active |-> TRUE]

Boxes(seq) == {seq[k] : k \in 1..Len(seq)}

TrackerInit(t, detections) ==
    [tracks |-> [k \in 1..Len(detections) |-> NewTrack(detections[k])],
     stage |-> "init"]

TrackerComputeFlow(t) == [t EXCEPT !.stage = "flow"]

TrackerApplyKalman(t) == [t EXCEPT !.stage = "kalman"]

\* Matched tracks are confirmed, missed confirmed tracks go inactive, missed
\* unconfirmed tracks are dropped, unmatched detections start new tracks.
TrackerUpdate(t, frame_id, detections, embeddings) ==
    LET kept == SelectSeq(t.tracks,
                          LAMBDA tr : tr.id \in Boxes(detections) \/ tr.confirmed)
        old == [k \in 1..Len(kept) |->
                  IF kept[k].id \in Boxes(detections)
                  THEN [kept[k] EXCEPT !.confirmed = TRUE, !.active = TRUE]
                  ELSE [kept[k] EXCEPT !.active = FALSE]]
        fresh == SelectSeq(detections,
                           LAMBDA b : b \notin {kept[k].id : k \in 1..Len(kept)})
    IN [tracks |-> old \o [k \in 1..Len(fresh) |-> NewTrack(fresh[k])],
        stage |-> "update"]

TrackerTrack(t) == [t EXCEPT !.stage = "track"]

(* ------------------------------ the log ------------------------------- *)
Entry(op, s, k, boxes, embs, ok) ==
    [op |-> op, s |-> s, k |-> k, boxes |-> boxes, embs |-> embs, ok |-> ok]

Op(op, s) == Entry(op, s, 0, << >>, << >>, TRUE)

\* The running state of one call: what it has changed and logged so far,
\* and the exception (if any) that is propagating out of it.
Append1(st, e) == [st EXCEPT !.log = Append(st.log, e)]
Raise(st, e) == [st EXCEPT !.exc = e]

(* --------------------------- visible_tracks --------------------------- *)
\* lines 109-112.  The call returns one lazy sequence per stream; the model
\* keeps what iterating them yields while no other call intervenes.
\* Variant of Visible that forgets the active flag.
VisibleConfirmedOnly(track) == track.confirmed

\* line 111: if track.confirmed and track.active
Visible(track) == track.confirmed /\ track.active

VisibleTracks(trks, n) ==
    [i \in 1..n |-> SelectSeq(trks[i].tracks, Visible)]

(* -------------------------------- step -------------------------------- *)
\* Variant of ColdStart that initialises the tracker before detecting.
ColdStartInitFirst(st, i, o) ==
    LET s1 == Append1([st EXCEPT !.trackers[i] = TrackerInit(@, << >>)],
                      Entry("init", i, 0, << >>, << >>, TRUE))
    IN IF o.fail = DetectorError
       THEN Raise(Append1(s1, Entry("detect", i, 0, << >>, << >>, FALSE)), DetectorError)
       ELSE [Append1(s1, Entry("detect", i, 0, o.dets, << >>, TRUE))
               EXCEPT !.detections = o.dets]

\* line 143-144: synchronous detection, then tracker initialisation
ColdStart(st, i, o) ==
    IF o.fail = DetectorError
    THEN Raise(Append1(st, Entry("detect", i, 0, << >>, << >>, FALSE)), DetectorError)
    ELSE LET s1 == Append1(st, Entry("detect", i, 0, o.dets, << >>, TRUE))
             s2 == Append1([s1 EXCEPT !.trackers[i] = TrackerInit(@, o.dets)],
                           Entry("init", i, 0, o.dets, << >>, TRUE))
         IN [s2 EXCEPT !.detections = o.dets]

\* line 148
DetectAsync(st, i) == Append1(st, Op("detect_async", i))

\* line 152
ComputeFlow(st, i) ==
    Append1([st EXCEPT !.trackers[i] = TrackerComputeFlow(@)], Op("compute_flow", i))

\* line 153
DetectorPostprocess(st, i, o) ==
    IF o.fail = DetectorError
    THEN Raise(Append1(st, Entry("detector.postprocess", i, 0, << >>, << >>, FALSE)),
               DetectorError)
    ELSE [Append1(st, Entry("detector.postprocess", i, 0, o.dets, << >>, TRUE))
            EXCEPT !.detections = o.dets]

\* Variant of ExtractAsync that hands the boxes over in reverse order.
ExtractAsyncReversed(st, i) ==
    LET rev == [k \in 1..Len(st.detections) |->
                  st.detections[Len(st.detections) + 1 - k]]
    IN [Append1(st, Entry("extract_async", i, 0, rev, << >>, TRUE))
          EXCEPT !.issued = rev]

\* line 156: the extractor keeps the boxes it was handed until the join
ExtractAsync(st, i) ==
    [Append1(st, Entry("extract_async", i, 0, st.detections, << >>, TRUE))
       EXCEPT !.issued = st.detections]

\* line 158
ApplyKalman(st, i) ==
    Append1([st EXCEPT !.trackers[i] = TrackerApplyKalman(@)], Op("apply_kalman", i))

\* line 159
ExtractorPostprocess(st, i, o) ==
    IF o.fail = ExtractorError
    THEN Raise(Append1(st, Entry("extractor.postprocess", i, 0, << >>, << >>, FALSE)),
               ExtractorError)
    ELSE [Append1(st, Entry("extractor.postprocess", i, 0, << >>,
                            Embeddings(st.issued), TRUE))
            EXCEPT !.embeddings = Embeddings(st.issued)]

\* Variant of Update that passes the index of the next frame.
UpdateNextIndex(st, i) ==
    Append1([st EXCEPT !.trackers[i] =
                 TrackerUpdate(@, st.frame_counts[i] + 1, st.detections, st.embeddings)],
            Entry("update", i, st.frame_counts[i] + 1, st.detections, st.embeddings, TRUE))

\* line 162
Update(st, i) ==
    Append1([st EXCEPT !.trackers[i] =
                 TrackerUpdate(@, st.frame_counts[i], st.detections, st.embeddings)],
            Entry("update", i, st.frame_counts[i], st.detections, st.embeddings, TRUE))

\* An exception raised by a statement skips the statements after it.
Ok(st) == st.exc = NoError

\* Variant of DetectCycle that joins the detection before computing the
\* flow registration.
DetectCycleJoinFirst(st, i, o) ==
    LET s1 == DetectAsync(st, i)
        s2 == DetectorPostprocess(s1, i, o)
        s3 == IF Ok(s2) THEN ComputeFlow(s2, i) ELSE s2
        s4 == IF Ok(s3) THEN ExtractAsync(s3, i) ELSE s3
        s5 == IF Ok(s4) THEN ApplyKalman(s4, i) ELSE s4
        s6 == IF Ok(s5) THEN ExtractorPostprocess(s5, i, o) ELSE s5
    IN IF Ok(s6) THEN Update(s6, i) ELSE s6

\* Variant of DetectCycle that never joins the extraction it issued.
DetectCycleNoExtractJoin(st, i, o) ==
    LET s1 == DetectAsync(st, i)
        s2 == ComputeFlow(s1, i)
        s3 == DetectorPostprocess(s2, i, o)
        s4 == IF Ok(s3) THEN ExtractAsync(s3, i) ELSE s3
        s5 == IF Ok(s4) THEN ApplyKalman(s4, i) ELSE s4
    IN IF Ok(s5) THEN Update(s5, i) ELSE s5

\* lines 147-162
DetectCycle(st, i, o) ==
    LET s1 == DetectAsync(st, i)
        s2 == ComputeFlow(s1, i)
        s3 == DetectorPostprocess(s2, i, o)
        s4 == IF Ok(s3) THEN ExtractAsync(s3, i) ELSE s3
        s5 == IF Ok(s4) THEN ApplyKalman(s4, i) ELSE s4
        s6 == IF Ok(s5) THEN ExtractorPostprocess(s5, i, o) ELSE s5
    IN IF Ok(s6) THEN Update(s6, i) ELSE s6

\* line 165
TrackOnly(st, i) ==
    Append1([st EXCEPT !.trackers[i] = TrackerTrack(@)], Op("track", i))

\* lines 182-185
Draw(st, i, n) ==
    Append1(st, Entry("render", i, Len(VisibleTracks(st.trackers, n)[i]),
                      st.detections, << >>, TRUE))

\* Variant of Increment that keeps one frame count for all the streams.
IncrementShared(st, i) ==
    Append1([st EXCEPT !.frame_counts = [k \in DOMAIN @ |-> @[k] + 1]],
            Op("frame_count += 1", i))

\* line 170
Increment(st, i) ==
    Append1([st EXCEPT !.frame_counts[i] = @ + 1], Op("frame_count += 1", i))

\* Variant of IsDetectFrame that fires one frame early.
IsDetectFrameEarly(count, skip) == (count + 1) % skip = 0

\* line 146
IsDetectFrame(count, skip) == count % skip = 0

\* lines 139-170: the body of the loop for one position i
StepBody(st, i, frame, o, skip, drawing, n) ==
    IF frame = None THEN st
    ELSE IF i > Len(st.frame_counts) THEN Raise(st, IndexError)
    ELSE LET s0 == [st EXCEPT !.detections = << >>, !.embeddings = << >>]
             s1 == IF s0.frame_counts[i] = 0 THEN ColdStart(s0, i, o)
                   ELSE IF IsDetectFrame(s0.frame_counts[i], skip)
                        THEN DetectCycle(s0, i, o)
                        ELSE TrackOnly(s0, i)
             s2 == IF drawing THEN IF Ok(s1) THEN Draw(s1, i, n) ELSE s1 ELSE s1
         IN IF Ok(s2) THEN Increment(s2, i) ELSE s2

\* Variant of StepLoop that walks the positions from the last to the first.
RECURSIVE StepLoopBackwards(_, _, _, _, _, _, _)
StepLoopBackwards(st, i, frames, oracle, skip, drawing, n) ==
    IF i > Len(frames) \/ st.exc # NoError THEN st
    ELSE LET p == Len(frames) + 1 - i
         IN StepLoopBackwards(
              StepBody(st, p, frames[p],
                       IF p \in DOMAIN oracle THEN oracle[p] ELSE DefaultOutcome,
                       skip, drawing, n),
              i + 1, frames, oracle, skip, drawing, n)

\* line 138: for i in range(len(frames))
RECURSIVE StepLoop(_, _, _, _, _, _, _)
StepLoop(st, i, frames, oracle, skip, drawing, n) ==
    IF i > Len(frames) \/ st.exc # NoError THEN st
    ELSE StepLoop(StepBody(st, i, frames[i],
                           IF i \in DOMAIN oracle THEN oracle[i] ELSE DefaultOutcome,
                           skip, drawing, n),
                  i + 1, frames, oracle, skip, drawing, n)

Start(counts, trks) ==
    [frame_counts |-> counts, trackers |-> trks, log |-> << >>, exc |-> NoError,
     detections |-> << >>, embeddings |-> << >>, issued |-> << >>]

(* -------------------------------- reset ------------------------------- *)
\* lines 124-126
RECURSIVE ResetLoop(_, _, _, _)
ResetLoop(st, i, streams, n) ==
    IF i > n \/ st.exc # NoError THEN st
    ELSE IF i > Len(streams) THEN Raise(st, IndexError)
    ELSE ResetLoop(
           Append1([st EXCEPT !.trackers[i] = TrackerReset(@, streams[i].cap_dt),
                              !.frame_counts = Append(@, 0)],
                   Entry("reset", i, streams[i].cap_dt, << >>, << >>, TRUE)),
           i + 1, streams, n)

(* ------------------------------ actions ------------------------------- *)
\* Argument lists of n-1, n or n+1 values of S.
ArgLists(S, n) == UNION {[1..k -> S] : k \in {n - 1, n, n + 1}}

Zeros(n) == [i \in 1..n |-> 0]

\* Stream configurations for a reset call: k configs whose cap_dt
\* alternates between two sample intervals, so neighbouring streams differ.
CapDts == <<30, 60>>
StreamConfigs(k) ==
    {[i \in 1..k |-> [cap_dt |-> CapDts[((i + b) % Len(CapDts)) + 1]]] :
       b \in 1..Len(CapDts)}

\* The caller is between two calls: nothing of the last call is kept.
NoCall == [name |-> "idle", args |-> << >>]

\* No MOT object yet: the fields hold placeholders until __init__ succeeds.
Init ==
    /\ constructed = FALSE
    /\ number_of_trackers = 0
    /\ detector_frame_skip = 0
    /\ draw = FALSE
    /\ trackers = << >>
    /\ frame_counts = << >>
    /\ visualizers = << >>
    /\ call = NoCall
    /\ log = << >>
    /\ exc = NoError
    /\ ret = << >>
    /\ given = << >>
    /\ handed = 0

\* Values of detector_frame_skip a caller may pass to the constructor.
SkipArgs == -1..MaxSkip

\* line 58: the smallest cadence period the constructor accepts
MinSkip == 1

\* Variant of ValidSkip that lets a period of 0 through.
ValidSkipFromZero(skip) == skip >= MinSkip - 1

\* line 58: assert detector_frame_skip >= 1
ValidSkip(skip) == skip >= MinSkip

\* lines 56-96: MOT(..., detector_frame_skip, ..., number_of_trackers, draw).
\* A failed assert leaves no object behind.
MOTInit ==
    /\ call = NoCall
    /\ ~constructed
    /\ \E n \in 1..MaxTrackers, skip \in SkipArgs, d \in BOOLEAN :
         /\ call' = [name |-> "__init__", args |-> <<n, skip, d>>]
         /\ IF ValidSkip(skip)
            THEN /\ constructed' = TRUE
                 /\ number_of_trackers' = n
                 /\ detector_frame_skip' = skip
                 /\ draw' = d
                 /\ trackers' = [i \in 1..n |-> NewTracker]
                 /\ frame_counts' = Zeros(n)
                 /\ visualizers' = [i \in 1..n |-> "Visualizer"]
                 /\ given' = Zeros(n)
                 /\ exc' = NoError
            ELSE /\ exc' = AssertionError
                 /\ UNCHANGED <<constructed, number_of_trackers, detector_frame_skip,
                                draw, trackers, frame_counts, visualizers, given>>
    /\ UNCHANGED <<log, ret, handed>>

\* Positions of a step call that hand a frame to a configured stream.
Fed(frames, n) == {i \in 1..n : i <= Len(frames) /\ frames[i] # None}

\* The fed streams whose frame reaches the detector (lines 142, 146).
Detecting(frames, counts, skip, n) ==
    {i \in Fed(frames, n) : i <= Len(counts) /\ IsDetectFrame(counts[i], skip)}

\* Variant of ResetCall that does not clear frame_counts first (line 123).
ResetCallNoClear ==
    /\ call = NoCall
    /\ constructed
    /\ \E k \in {number_of_trackers - 1, number_of_trackers, number_of_trackers + 1} :
      \E streams \in StreamConfigs(k) :
        LET st == ResetLoop(Start(frame_counts, trackers), 1, streams,
                            number_of_trackers)
        IN /\ frame_counts' = st.frame_counts
           /\ trackers' = st.trackers
           /\ log' = st.log
           /\ exc' = st.exc
           /\ call' = [name |-> "reset", args |-> streams]
           /\ ret' = << >>
           /\ given' = IF k = number_of_trackers
                       THEN Zeros(number_of_trackers) ELSE given
           /\ UNCHANGED <<constructed, number_of_trackers, detector_frame_skip, draw,
                        visualizers, handed>>

ResetCall ==
    /\ call = NoCall
    /\ constructed
    /\ \E k \in {number_of_trackers - 1, number_of_trackers, number_of_trackers + 1} :
      \E streams \in StreamConfigs(k) :
        LET st == ResetLoop(Start(<< >>, trackers), 1, streams, number_of_trackers)
        IN /\ frame_counts' = st.frame_counts
           /\ trackers' = st.trackers
           /\ log' = st.log
           /\ exc' = st.exc
           /\ call' = [name |-> "reset", args |-> streams]
           /\ ret' = << >>
           /\ given' = IF k = number_of_trackers
                       THEN Zeros(number_of_trackers) ELSE given
           /\ UNCHANGED <<constructed, number_of_trackers, detector_frame_skip, draw,
                        visualizers, handed>>

StepCall ==
    /\ call = NoCall
    /\ constructed
    /\ \E frames \in ArgLists(FrameValues, number_of_trackers) :
      /\ handed + Cardinality(Fed(frames, number_of_trackers)) <= MaxFrames
      /\ handed' = handed + Cardinality(Fed(frames, number_of_trackers))
      /\ \E oracle \in [Detecting(frames, frame_counts, detector_frame_skip,
                                   number_of_trackers) -> Outcomes] :
           LET st == StepLoop(Start(frame_counts, trackers), 1, frames, oracle,
                              detector_frame_skip, draw, number_of_trackers)
           IN /\ frame_counts' = st.frame_counts
              /\ trackers' = st.trackers
              /\ log' = st.log
              /\ exc' = st.exc
              /\ call' = [name |-> "step", args |-> frames]
              /\ ret' = << >>
              /\ given' = [i \in 1..number_of_trackers |->
                             IF Len(frames) = number_of_trackers
                                  /\ i \in Fed(frames, number_of_trackers)
                             THEN given[i] + 1 ELSE given[i]]
              /\ UNCHANGED <<constructed, number_of_trackers, detector_frame_skip,
                             draw, visualizers>>

VisibleTracksCall ==
    /\ call = NoCall
    /\ constructed
    /\ ret' = VisibleTracks(trackers, number_of_trackers)
    /\ call' = [name |-> "visible_tracks", args |-> << >>]
    /\ log' = << >>
    /\ exc' = NoError
    /\ UNCHANGED <<constructed, number_of_trackers, detector_frame_skip, draw,
                   trackers, frame_counts, visualizers, given, handed>>

\* The call returns (or raises) to the caller, who may then call again.
Return ==
    /\ call # NoCall
    /\ call' = NoCall
    /\ log' = << >>
    /\ exc' = NoError
    /\ ret' = << >>
    /\ UNCHANGED <<constructed, number_of_trackers, detector_frame_skip, draw,
                   trackers, frame_counts, visualizers, given, handed>>

Next == MOTInit \/ ResetCall \/ StepCall \/ VisibleTracksCall \/ Return

Spec == Init /\ [][Next]_vars

(* ------------------- reading the log of the last call ------------------ *)
Names(seq) == [k \in 1..Len(seq) |-> seq[k].op]

\* The operations of the last call done for stream i, restricted to ops.
OpsOf(lg, i, ops) == Names(SelectSeq(lg, LAMBDA e : e.s = i /\ e.op \in ops))

IsPrefix(a, b) == Len(a) <= Len(b) /\ \A k \in 1..Len(a) : a[k] = b[k]

\* The stream whose detector / extractor call raised in the last call.
Failed(lg) == {lg[k].s : k \in {j \in 1..Len(lg) : ~lg[j].ok}}

Joins == {"detector.postprocess", "extractor.postprocess"}

\* The stream whose DetectCycle join raised in the last call.
FailedJoin(lg) == {lg[k].s : k \in {j \in 1..Len(lg) : ~lg[j].ok /\ lg[j].op \in Joins}}

Count(counts, i) == IF i <= Len(counts) THEN counts[i] ELSE -1

Advanced(lg, i) == OpsOf(lg, i, {"frame_count += 1"}) = <<"frame_count += 1">>

\* CadencePhase of the frame with index k under cadence period P.
Phase(k, P) == IF k = 0 THEN "ColdStart"
               ELSE IF k % P = 0 THEN "DetectCycle" ELSE "TrackOnly"

PathOf(op) == IF op = "detect" THEN "ColdStart"
              ELSE IF op = "detect_async" THEN "DetectCycle" ELSE "TrackOnly"

\* The cadence paths the last call entered for stream i.
PathsRun(lg, i) ==
    LET starts == OpsOf(lg, i, {"detect", "detect_async", "track"})
    IN [k \in 1..Len(starts) |-> PathOf(starts[k])]

DetectCycleOrder ==
    <<"detect_async", "compute_flow", "detector.postprocess", "extract_async",
      "apply_kalman", "extractor.postprocess", "update">>

CycleOps(lg, i) == OpsOf(lg, i, {DetectCycleOrder[k] : k \in 1..7})

(* ------------------------------- claims -------------------------------- *)

\* C1: every non-null frame given to a stream by a step call (one frame per
\* stream) runs exactly one path, chosen by the index k of the frame in
\* the stream's run since the reset: ColdStart for k = 0, DetectCycle for
\* k > 0 with k mod P = 0, TrackOnly otherwise.
C1_Cadence ==
    (call.name = "step" /\ Len(call.args) = number_of_trackers) =>
      \A i \in Fed(call.args, number_of_trackers) :
        PathsRun(log, i) = <<Phase(given[i] - 1, detector_frame_skip)>>

\* C2: the operations of one DetectCycle of one stream happen in the order
\* detect_async, compute_flow, detector.postprocess, extract_async,
\* apply_kalman, extractor.postprocess, update; a cycle stops early only at
\* a join that raises, and otherwise performs all seven.
C2_DetectCycleOrder ==
    \A i \in 1..number_of_trackers :
      LET ops == CycleOps(log, i)
      IN /\ IsPrefix(ops, DetectCycleOrder)
         /\ ops # << >> =>
               Len(ops) = IF i \notin FailedJoin(log) THEN 7
                          ELSE IF exc = DetectorError THEN 3 ELSE 6

C2_Witness ==
    \E i \in 1..number_of_trackers : CycleOps(log, i) = DetectCycleOrder

\* C3: a step call (one frame per stream) that passes None for stream s
\* performs no operation for s and leaves its frame_count and tracker
\* unchanged, and every other stream that got a non-null frame in the call
\* has its frame_count advanced by one.
C3_NullFrameNoOp ==
    [][(call'.name = "step" /\ Len(call'.args) = number_of_trackers) =>
         \A s \in 1..number_of_trackers :
           (s <= Len(call'.args) /\ call'.args[s] = None) =>
             /\ Count(frame_counts', s) = Count(frame_counts, s)
             /\ trackers'[s] = trackers[s]
             /\ OpsOf(log', s, {log'[k].op : k \in 1..Len(log')}) = << >>
             /\ \A t \in Fed(call'.args, number_of_trackers) :
                  Count(frame_counts', t) = Count(frame_counts, t) + 1]_vars

\* C4: a stream's frame_count equals the number of non-null frames the
\* stream has been given by step since the last reset.
C4_CountEqualsGiven ==
    \A i \in 1..Len(frame_counts) : frame_counts[i] = given[i]

\* C5: when the detector or extractor raises for stream A in a step call,
\* every other stream B that got a non-null frame in that call still runs
\* its cadence path and has its frame_count advanced.
C5_FailureContainment ==
    (call.name = "step" /\ exc \in StageErrors) =>
      \A B \in Fed(call.args, number_of_trackers) \ Failed(log) :
        Len(PathsRun(log, B)) = 1 /\ Advanced(log, B)

\* C6: a DetectCycle whose detection join or extraction join raises leaves
\* the stream's tracker exactly as it was before the cycle.
C6_AllOrNothing ==
    [][call'.name = "step" =>
         \A A \in FailedJoin(log') : trackers'[A] = trackers[A]]_vars

\* C7: a DetectCycle whose detection join or extraction join raises still
\* advances the stream's frame_count by one.
C7_CountAdvancesOnFailure ==
    [][call'.name = "step" =>
         \A A \in FailedJoin(log') : frame_counts'[A] = frame_counts[A] + 1]_vars

\* C8: a step or reset call whose number of arguments differs from
\* number_of_trackers is rejected at entry: it raises, performs no
\* operation and changes no frame_count and no tracker.
C8_MismatchRejected ==
    [][(call'.name \in {"step", "reset"}
          /\ Len(call'.args) # number_of_trackers) =>
         /\ exc' # NoError
         /\ log' = << >>
         /\ frame_counts' = frame_counts
         /\ trackers' = trackers]_vars

\* C9: after a reset call with one config per configured stream, whatever
\* calls preceded it, every configured stream has frame_count 0 and a
\* fresh tracker, reset exactly once, with the cap_dt of that stream's own
\* config.
C9_ResetReplaces ==
    (call.name = "reset" /\ Len(call.args) = number_of_trackers) =>
      /\ exc = NoError
      /\ Len(frame_counts) = number_of_trackers
      /\ Len(log) = number_of_trackers
      /\ \A i \in 1..number_of_trackers :
           /\ frame_counts[i] = 0
           /\ trackers[i] = NewTracker
           /\ log[i].op = "reset" /\ log[i].s = i
           /\ log[i].k = call.args[i].cap_dt

C9_Witness ==
    /\ call.name = "reset"
    /\ Len(call.args) = number_of_trackers
    /\ handed > 0
    /\ number_of_trackers > 1
    /\ call.args[1].cap_dt # call.args[2].cap_dt

\* The confirmed and active tracks of a track table, in table order.
ExactlyVisible(r, tracks) ==
    LET idx == {j \in 1..Len(tracks) : tracks[j].confirmed /\ tracks[j].active}
    IN /\ Len(r) = Cardinality(idx)
       /\ \A k \in 1..Len(r) :
            \E j \in idx : r[k] = tracks[j] /\ Cardinality({m \in idx : m <= j}) = k

\* C10: visible_tracks changes no tracker and no frame_count, and yields
\* for every stream exactly the confirmed and active tracks of that
\* stream's tracker; the result is thus fixed by the unchanged trackers,
\* and a repeated call yields the same again.
C10_VisibleTracksReadOnly ==
    [][call'.name = "visible_tracks" =>
         /\ trackers' = trackers
         /\ frame_counts' = frame_counts
         /\ Len(ret') = number_of_trackers
         /\ \A i \in 1..number_of_trackers :
              ExactlyVisible(ret'[i], trackers[i].tracks)]_vars

C10_Witness ==
    /\ call.name = "visible_tracks"
    /\ \E i \in 1..number_of_trackers :
         ret[i] # << >> /\ \E j \in 1..number_of_trackers :
                            trackers[j].tracks # << >> /\ ret[j] = << >>

\* C11: no MOT object exists with detector_frame_skip < 1: a constructor
\* call with such a period raises and constructs nothing, and every
\* constructed object has an integer period >= 1, so frame_count mod period
\* is defined.
C11_ValidPeriod ==
    /\ constructed => (detector_frame_skip \in Nat /\ detector_frame_skip >= MinSkip)
    /\ (call.name = "__init__" /\ call.args[2] < MinSkip) =>
         (~constructed /\ exc = AssertionError)

C11_Witness ==
    call.name = "__init__" /\ call.args[2] < MinSkip /\ exc = AssertionError

\* Requests issued but not yet joined after the first k entries of lg.
Outstanding(lg, k, issue, join) ==
    Cardinality({j \in 1..k : lg[j].op = issue})
      - Cardinality({j \in 1..k : lg[j].op = join})

\* Entry k of lg joins a request: the latest issue or join of that kind
\* before it is an issue by the same stream.
JoinsOwnIssue(lg, k, issue, join) ==
    lg[k].op = join =>
      \E j \in 1..(k - 1) :
        /\ lg[j].op = issue /\ lg[j].s = lg[k].s
        /\ \A m \in (j + 1)..(k - 1) : lg[m].op \notin {issue, join}

AsyncPairs == {<<"detect_async", "detector.postprocess">>,
               <<"extract_async", "extractor.postprocess">>}

\* C12: in every call each join consumes the one unjoined request issued
\* before it by the same stream (hence for the same frame), at most one
\* request per stage is outstanding, and none is outstanding when the call
\* moves on to another stream or ends.
C12_IssueJoinPaired ==
    \A p \in AsyncPairs : \A k \in 1..Len(log) :
      /\ Outstanding(log, k, p[1], p[2]) \in {0, 1}
      /\ JoinsOwnIssue(log, k, p[1], p[2])
      /\ (k = Len(log) \/ log[k + 1].s # log[k].s) =>
           Outstanding(log, k, p[1], p[2]) = 0

C12_Witness ==
    \E k \in 1..Len(log) :
      /\ log[k].op = "extractor.postprocess" /\ log[k].ok
      /\ \E m \in (k + 1)..Len(log) : log[m].s # log[k].s

\* The last entry of lg before position k with operation op for stream s
\* (0 when there is none).
LastBefore(lg, k, op, s) ==
    CHOOSE j \in 0..(k - 1) :
      /\ j > 0 => (lg[j].op = op /\ lg[j].s = s)
      /\ \A m \in (j + 1)..(k - 1) : ~(lg[m].op = op /\ lg[m].s = s)

\* C13: in every completed DetectCycle the boxes handed to extract_async
\* are the DetectionSet the detection join returned, in the same order;
\* update receives that DetectionSet and the embeddings the extraction join
\* returned, and the j-th embedding is the one of the j-th detection.
C13_Alignment ==
    \A k \in 1..Len(log) :
      log[k].op = "update" =>
        LET s == log[k].s
            d == LastBefore(log, k, "detector.postprocess", s)
            x == LastBefore(log, k, "extract_async", s)
            e == LastBefore(log, k, "extractor.postprocess", s)
        IN /\ 0 < d /\ d < x /\ x < e
           /\ log[x].boxes = log[d].boxes
           /\ log[k].boxes = log[d].boxes
           /\ log[k].embs = log[e].embs
           /\ Len(log[k].embs) = Len(log[k].boxes)
           /\ \A j \in 1..Len(log[k].boxes) :
                log[k].embs[j] = Embedding(log[k].boxes[j])

C13_Witness ==
    \E k \in 1..Len(log) :
      /\ log[k].op = "update"
      /\ Len(log[k].boxes) > 1
      /\ log[k].boxes[1] # log[k].boxes[2]

\* C14: in every step call tracker.update runs for a stream exactly once
\* if the stream completed a DetectCycle and not at all otherwise, and the
\* frame index it receives is the stream's frame_count before the
\* increment for the frame, a positive multiple of the cadence period.
C14_UpdateOncePerCycle ==
    call.name = "step" =>
      /\ \A i \in 1..number_of_trackers :
           OpsOf(log, i, {"update"}) =
             IF PathsRun(log, i) = <<"DetectCycle">> /\ i \notin Failed(log)
             THEN <<"update">> ELSE << >>
      /\ \A k \in 1..Len(log) :
           log[k].op = "update" =>
             /\ log[k].k > 0
             /\ log[k].k % detector_frame_skip = 0
             /\ frame_counts[log[k].s] = log[k].k + 1

C14_Witness ==
    \E k \in 1..Len(log) :
      log[k].op = "update" /\ log[k].k = detector_frame_skip
        /\ detector_frame_skip > 1

\* Operations on the shared detector and extractor.
InferenceOps == {"detect", "detect_async", "detector.postprocess",
                 "extract_async", "extractor.postprocess"}

\* Operations on a collaborator: everything logged but the counter advance.
CollaboratorOps(lg) == {lg[k].op : k \in 1..Len(lg)} \ {"frame_count += 1"}

\* C15: in every step call a stream on a TrackOnly frame has exactly one
\* collaborator operation besides rendering, tracker.track; and the detector
\* and extractor are used for a stream only on a frame it takes with a
\* frame_count of 0 or a multiple of the cadence period.
C15_TrackOnlyIsCheap ==
    [][call'.name = "step" =>
         \A i \in 1..number_of_trackers :
           /\ PathsRun(log', i) = <<"TrackOnly">> =>
                OpsOf(log', i, CollaboratorOps(log') \ {"render"}) = <<"track">>
           /\ OpsOf(log', i, InferenceOps) # << >> =>
                Count(frame_counts, i) % detector_frame_skip = 0]_vars

C15_Witness ==
    /\ call.name = "step" /\ draw
    /\ \E i \in 1..number_of_trackers : PathsRun(log, i) = <<"TrackOnly">>

\* The log entries of the last call for stream i with an operation in ops.
EntriesOf(lg, i, ops) == SelectSeq(lg, LAMBDA e : e.s = i /\ e.op \in ops)

\* C16: a frame a stream takes with frame_count 0 (the count is 1 once it
\* is advanced) runs ColdStart, and ColdStart is the synchronous detection
\* followed by tracker.init on the DetectionSet it returned, with no other
\* detector, extractor or tracker operation; a detection that raises ends
\* the frame before init.
C16_ColdStart ==
    call.name = "step" =>
      \A i \in 1..number_of_trackers :
        /\ (Advanced(log, i) /\ frame_counts[i] = 1) =>
             PathsRun(log, i) = <<"ColdStart">>
        /\ PathsRun(log, i) = <<"ColdStart">> =>
             LET es == EntriesOf(log, i, CollaboratorOps(log) \ {"render"})
             IN IF i \in Failed(log)
                THEN Names(es) = <<"detect">> /\ ~Advanced(log, i)
                ELSE /\ Names(es) = <<"detect", "init">>
                     /\ es[2].boxes = es[1].boxes
                     /\ trackers[i] = TrackerInit(NewTracker, es[1].boxes)
                     /\ frame_counts[i] = 1

C16_Witness ==
    \E k \in 1..Len(log) : log[k].op = "init" /\ log[k].boxes # << >>

\* The DetectionSet of the frame stream i took in the last call: what the
\* synchronous detection or the detection join returned, else none.
FrameDetections(lg, i) ==
    LET ds == EntriesOf(lg, i, {"detect", "detector.postprocess"})
    IN IF ds = << >> THEN << >> ELSE ds[1].boxes

\* C17: in a step call (one frame per stream) with rendering enabled, every
\* stream that got a non-null frame has its visualizer invoked exactly
\* once, as the last operation before the frame_count advance, with the
\* DetectionSet of that frame (a stream whose own detector or extractor
\* call raised is at most rendered once); with rendering disabled, or for a
\* None frame, the visualizer is not invoked.
C17_RenderOncePerFrame ==
    (call.name = "step" /\ Len(call.args) = number_of_trackers) =>
      \A i \in 1..number_of_trackers :
        LET all == EntriesOf(log, i, {log[k].op : k \in 1..Len(log)})
            rs == EntriesOf(log, i, {"render"})
        IN IF draw /\ i \in Fed(call.args, number_of_trackers)
                /\ i \notin Failed(log)
           THEN /\ Len(rs) = 1
                /\ Len(all) >= 3
                /\ all[Len(all) - 1].op = "render"
                /\ all[Len(all)].op = "frame_count += 1"
                /\ rs[1].boxes = FrameDetections(log, i)
           ELSE IF draw /\ i \in Failed(log) THEN Len(rs) <= 1
           ELSE rs = << >>

\* C18: a step call works through the streams in positional order, one at
\* a time: an operation for a later stream never precedes one for an
\* earlier stream, and when the call moves on to the next stream the last
\* thing it did for the previous one is the frame_count advance.
C18_Sequential ==
    call.name = "step" =>
      /\ \A j, k \in 1..Len(log) : j < k => log[j].s <= log[k].s
      /\ \A k \in 1..(Len(log) - 1) :
           log[k].s # log[k + 1].s => log[k].op = "frame_count += 1"

C18_Witness ==
    \E i \in 1..number_of_trackers :
      /\ CycleOps(log, i) = DetectCycleOrder
      /\ \E k \in 1..Len(log) : log[k].s > i

\* C19: in every state after construction, whatever calls were made and
\* whether or not they raised, there are number_of_trackers frame counters,
\* trackers and visualizers.
C19_ListsInSync ==
    constructed =>
      /\ Len(frame_counts) = number_of_trackers
      /\ Len(trackers) = number_of_trackers
      /\ Len(visualizers) = number_of_trackers

\* C20: in every step call a stream that is not processed (None frame, or
\* not reached) keeps its frame_count and tracker; a stream that is
\* processed got a non-null frame, takes the path of its own frame_count
\* whatever the other streams' counts are, and has only its own count
\* advanced, by one if its path completes; the visualizer list is never
\* changed.
C20_StreamIsolation ==
    [][call'.name = "step" =>
         /\ visualizers' = visualizers
         /\ \A j \in 1..number_of_trackers :
              IF EntriesOf(log', j, {log'[k].op : k \in 1..Len(log')}) = << >>
              THEN /\ Count(frame_counts', j) = Count(frame_counts, j)
                   /\ trackers'[j] = trackers[j]
              ELSE /\ j \in Fed(call'.args, number_of_trackers)
                   /\ PathsRun(log', j) =
                        <<Phase(Count(frame_counts, j), detector_frame_skip)>>
                   /\ Count(frame_counts', j) =
                        Count(frame_counts, j) + IF Advanced(log', j) THEN 1 ELSE 0]_vars

C20_Witness ==
    /\ call.name = "step"
    /\ \E i, j \in 1..number_of_trackers :
         /\ PathsRun(log, i) = <<"ColdStart">>
         /\ PathsRun(log, j) \in {<<"DetectCycle">>, <<"TrackOnly">>}
         /\ Advanced(log, i) /\ Advanced(log, j)
         /\ frame_counts[i] # frame_counts[j]

====
